---- MODULE Spec2Model ----
(***************************************************************************)
(* Scale catalog synchronisation of itretail_automation                    *)
(* (src/src/internal/cas.rs): the per-scale record, the two vendor         *)
(* callbacks recvproc and stateproc, the orchestrator Scales::send with    *)
(* its poll loop, and the PLU allocator of Scales::filtered_items.         *)
(*                                                                         *)
(* Every callback and every orchestrator step runs with the process-wide   *)
(* DLLAPI mutex held from its first to its last statement, so each is one  *)
(* atomic action here.  The vendor library and the scale are the           *)
(* environment: a command handed to the vendor send call is, when the call *)
(* succeeds, in flight until the scale acknowledges it through recvproc.   *)
(***************************************************************************)
EXTENDS Integers, Sequences, FiniteSets, TLC

\* ------------------------------------------------------------------ bounds
MaxItems == 2     \* items in the catalog handed to the scales
MaxTimeout == 1   \* the timeout argument, in seconds
MaxJitter == 0    \* whole seconds a poll pass may take beyond its 1 s sleep
MaxCatalog == 3   \* items in the catalog the POS returns
MaxRev == 2       \* the revision count of a scale record wraps after MaxRev

\* The scale addresses a run may be asked to serve.
Addrs == {"s1", "s2"}
ScaleLists == {<<>>, <<"s1", "s2">>}

\* State codes the vendor library reports besides CONNECT.
UnhandledStates == {"RETRY"}

VARIABLES
    args,          \* [wipe, timeout, scale]: the command line of Scales::send
    weighed_items, \* the corrected catalog handed to the scales
    scales,        \* DLLAPI.scales: address -> Scale
    pc,            \* position of the orchestrator in Scales::send
    i,             \* index of the running for loop (1-based)
    idx,           \* next connection index
    ips,           \* the registry keys collected after the adds
    done,          \* the poll loop's done flag
    elapsed,       \* start.elapsed().as_secs()
    link,          \* vendor: per address none | added | connecting | up | closed
    inflight,      \* vendor: per address the commands sent and not yet acknowledged
    sent,          \* history: per address every vendor send call, in order
    failed,        \* history: per address, a vendor connect or send call failed
    observed,      \* history: per address, complete() as the current poll pass read it
    prev_elapsed,  \* history: elapsed at the previous timeout test
    connected,     \* history: per address, the CONNECT state callback was delivered
    catalog,       \* the product list GetAllProducts returns
    items,         \* filtered_items: the filtered, sorted list
    existing_plu,  \* filtered_items: the set next_plu probes
    seen_plu,      \* filtered_items: the PLUs claimed so far in the walk
    plu_assignment,\* filtered_items: the corrections, in walk order
    ai,            \* filtered_items: index of the walk (1-based)
    locks,         \* the owner of DLLAPI and of each scale's mutex
    threads,       \* per thread: what it runs, where it is, for which scale
    rev,           \* per address, how often the scale record was written
    string,        \* jam: the text to write, as a sequence of characters
    out,           \* jam: the buffer written, [buf, written]
    pfa,           \* ProductFieldAssignments: [headers, items]
    csv            \* what as_csv returned, as a sequence of characters

avars == <<catalog, items, existing_plu, seen_plu, plu_assignment, ai>>

lvars == <<locks, threads, rev>>

fvars == <<string, out, pfa, csv>>

vars == <<args, weighed_items, scales, pc, i, idx, ips, done, elapsed,
          link, inflight, sent, failed, observed, prev_elapsed, connected,
          catalog, items, existing_plu, seen_plu, plu_assignment, ai,
          locks, threads, rev, string, out, pfa, csv>>

\* ------------------------------------------------------------------ locks
\* Who holds which mutex, statement by statement.  The orchestrator is the
\* thread "main"; the vendor library runs the callbacks on threads of its
\* own, here two, each of which may be handed a callback for any scale.
\* A thread is [phase, step, ip, seen]: the loop of send or the callback it
\* runs, the statement it is at, the scale it works on, and the revision of
\* the record it read.
VendorThreads == {"v1", "v2"}
Threads == {"main"} \cup VendorThreads
Batch == <<"s1", "s2">>
Pos(d) == CHOOSE k \in DOMAIN Batch : Batch[k] = d

Thread(phase, step, ip) == [phase |-> phase, step |-> step, ip |-> ip, seen |-> 0]

LocksFree ==
    /\ locks = [l \in {"DLLAPI"} \cup Addrs |-> "nobody"]
    /\ threads = [t \in Threads |->
                    IF t = "main" THEN Thread("add", "lock_dll", Batch[1])
                    ELSE Thread("callback", "idle", Batch[1])]
    /\ rev = [a \in Addrs |-> 0]

\* No record is being serialized and no assignment file is being built.
Unbuilt == [buf |-> <<>>, written |-> {}]
NoText ==
    /\ string = <<>>
    /\ out = Unbuilt
    /\ pfa = [headers |-> <<>>, items |-> <<>>]
    /\ csv = <<>>

pvars == <<args, weighed_items, scales, pc, i, idx, ips, done, elapsed,
           link, inflight, sent, failed, observed, prev_elapsed, connected,
           catalog, items, existing_plu, seen_plu, plu_assignment, ai,
           string, out, pfa, csv>>

\* Mutex::lock returns when nobody holds the mutex.
CanLock_Always(owner) == TRUE
CanLock(owner) == owner = "nobody"

\* The loops of send that lock a scale's mutex after DLLAPI, and the ones
\* whose body is a vendor call made with the locks held.
LocksScale(phase) == phase \in {"products", "connect", "poll", "callback"}
WritesRecord(phase) == phase \in {"products", "poll", "callback"}
InVendorCall(th) ==
    \/ th.phase \in {"add", "connect"} /\ th.step = "body"
    \/ th.phase = "callback" /\ th.step = "call"

\* cas_connect was called for d: from then on the vendor reports on d.
ConnectIssued(d) ==
    LET m == threads["main"] IN
    \/ m.phase = "connect" /\ Pos(m.ip) > Pos(d)
    \/ m.phase = "connect" /\ m.ip = d /\ m.step \in {"body", "unlock"}
    \/ m.phase = "poll"

\* let cas = DLLAPI.lock().unwrap()
LockDll(t) ==
    /\ threads[t].step = "lock_dll"
    /\ CanLock(locks["DLLAPI"])
    /\ locks' = [locks EXCEPT !["DLLAPI"] = t]
    /\ threads' = [threads EXCEPT ![t].step =
                      IF LocksScale(threads[t].phase) THEN "lock_scale" ELSE "body"]
    /\ UNCHANGED <<rev, pvars>>

\* cas.scales.get(ip).unwrap().lock().unwrap(), and the first read
LockScale(t) ==
    /\ threads[t].step = "lock_scale"
    /\ CanLock(locks[threads[t].ip])
    /\ locks' = [locks EXCEPT ![threads[t].ip] = t]
    /\ threads' = [threads EXCEPT ![t].step = "body", ![t].seen = rev[threads[t].ip]]
    /\ UNCHANGED <<rev, pvars>>

\* A write of the record: the revision the thread read, plus one.
Written(t) == (threads[t].seen + 1) % (MaxRev + 1)

\* The body of the loop or of the callback: the vendor call of add and
\* connect returns, the keys are read, the record is written; a callback may
\* go on into a vendor send or disconnect.
Body(t) ==
    /\ threads[t].step = "body"
    /\ \E step \in IF threads[t].phase = "callback" THEN {"call", "unlock"}
                   ELSE {"unlock"} :
          threads' = [threads EXCEPT
                         ![t].step = step,
                         ![t].seen = IF WritesRecord(threads[t].phase)
                                     THEN Written(t) ELSE @]
    /\ rev' = IF WritesRecord(threads[t].phase)
              THEN [rev EXCEPT ![threads[t].ip] = Written(t)] ELSE rev
    /\ UNCHANGED <<locks, pvars>>

\* The vendor call of a callback returns and the callback writes again
\* (product_idx += 1).
Call(t) ==
    /\ threads[t].step = "call"
    /\ threads' = [threads EXCEPT ![t].step = "unlock", ![t].seen = Written(t)]
    /\ rev' = [rev EXCEPT ![threads[t].ip] = Written(t)]
    /\ UNCHANGED <<locks, pvars>>

\* Where main goes when an iteration is over.
NextPhase(phase) ==
    CASE phase = "add" -> "keys"
      [] phase = "keys" -> "products"
      [] phase = "products" -> "connect"
      [] OTHER -> "poll"

AfterIteration(th) ==
    IF th.phase = "callback" THEN Thread("callback", "idle", th.ip)
    ELSE IF th.phase # "keys" /\ Pos(th.ip) < Len(Batch)
    THEN Thread(th.phase, "lock_dll", Batch[Pos(th.ip) + 1])
    ELSE IF th.phase = "poll" THEN Thread("poll", "sleep", Batch[1])
    ELSE Thread(NextPhase(th.phase), "lock_dll", Batch[1])

\* Only the guard of DLLAPI is dropped; the scale stays locked.
Released_DllOnly(ls, t) == [ls EXCEPT !["DLLAPI"] = "nobody"]

\* The locks once the guards of t are dropped.
Released(ls, t) == [l \in DOMAIN ls |-> IF ls[l] = t THEN "nobody" ELSE ls[l]]

\* The guards go out of scope.
Unlock(t) ==
    /\ threads[t].step = "unlock"
    /\ locks' = Released(locks, t)
    /\ threads' = [threads EXCEPT ![t] = AfterIteration(threads[t])]
    /\ UNCHANGED <<rev, pvars>>

\* thread::sleep returns and the next pass starts, or the loop was left.
Wake ==
    /\ threads["main"].step = "sleep"
    /\ \E step \in {"lock_dll", "end"} :
          threads' = [threads EXCEPT !["main"].step = step]
    /\ UNCHANGED <<locks, rev, pvars>>

\* The vendor hands a callback for d to one of its threads.
Deliver(t, d) ==
    /\ t \in VendorThreads
    /\ threads[t].step = "idle"
    /\ threads["main"].step # "end"
    /\ ConnectIssued(d)
    /\ threads' = [threads EXCEPT ![t] = Thread("callback", "lock_dll", d)]
    /\ UNCHANGED <<locks, rev, pvars>>

NextLocks ==
    \/ \E t \in Threads : LockDll(t) \/ LockScale(t) \/ Body(t) \/ Call(t) \/ Unlock(t)
    \/ Wake
    \/ \E t \in VendorThreads, d \in Addrs : Deliver(t, d)

\* ------------------------------------------------------------------ Scale
Scale_new(ip) ==
    [ip |-> ip, idx |-> -1, state |-> "DISCONNECT",
     last_send_action |-> "NOTHING", last_recv_action |-> "NOTHING",
     should_delete |-> TRUE, delete_completed |-> FALSE,
     plus_downloaded |-> 0, product_idx |-> 0,
     products |-> <<>>, notified |-> FALSE]

\* Completion read off the next-item index instead of the downloaded count.
complete_ByIndex(s) ==
    (s.product_idx = Len(s.products))
        /\ (s.should_delete = s.delete_completed)

complete(s) ==
    (s.plus_downloaded = Len(s.products))
        /\ (s.should_delete = s.delete_completed)

\* What status_str prints after the address: "complete", "deleting", or the
\* quotient 100 * num / den, kept as its two terms.
status_str(s) ==
    IF complete(s) THEN [kind |-> "complete", num |-> 0, den |-> 1]
    ELSE IF s.should_delete /\ ~s.delete_completed
    THEN [kind |-> "deleting", num |-> 0, den |-> 1]
    ELSE [kind |-> "percent", num |-> 100 * s.plus_downloaded, den |-> Len(s.products)]

\* ------------------------------------------------------------------ ScaleAPI
\* The vendor calls a handler makes are returned as a sequence, in call order;
\* ret is what cas_senddata_ex returns (0: failure).
SendCall(action, item, ret) ==
    [call |-> "send", action |-> action, item |-> item, ret |-> ret]
DisconnectCall == [call |-> "disconnect", action |-> "NOTHING", item |-> 0, ret |-> 1]

delete_plus(s, ret) ==
    IF s.state # "CONNECT"
    THEN [scale |-> s, rc |-> FALSE, calls |-> <<>>]
    ELSE [scale |-> [s EXCEPT !.last_send_action = "DELETEALL"],
          rc |-> TRUE,
          calls |-> <<SendCall("DELETEALL", 0, ret)>>]

\* push_plu without the test of the scale's state.
push_plu_AnyState(s, ret) ==
    IF s.product_idx >= Len(s.products)
    THEN [scale |-> s, rc |-> "OkFalse", calls |-> <<>>]
    ELSE [scale |-> [s EXCEPT !.last_send_action = "DOWNLOAD"],
          rc |-> IF ret = 0 THEN "Err"
                 ELSE IF Len(s.products) > s.product_idx + 1 THEN "OkTrue"
                 ELSE "OkFalse",
          calls |-> <<SendCall("DOWNLOAD", s.products[s.product_idx + 1], ret)>>]

\* push_plu that takes the item it sends off the scale's list.
push_plu_Consumes(s, ret) ==
    IF s.products = <<>>
    THEN [scale |-> s, rc |-> "OkFalse", calls |-> <<>>]
    ELSE IF s.state # "CONNECT"
    THEN [scale |-> s, rc |-> "Err", calls |-> <<>>]
    ELSE [scale |-> [s EXCEPT !.last_send_action = "DOWNLOAD",
                              !.products = Tail(@)],
          rc |-> IF ret = 0 THEN "Err"
                 ELSE IF Len(s.products) > 1 THEN "OkTrue"
                 ELSE "OkFalse",
          calls |-> <<SendCall("DOWNLOAD", s.products[1], ret)>>]

\* rc: "OkTrue" | "OkFalse" | "Err"
push_plu(s, ret) ==
    IF s.product_idx >= Len(s.products)
    THEN [scale |-> s, rc |-> "OkFalse", calls |-> <<>>]
    ELSE IF s.state # "CONNECT"
    THEN [scale |-> s, rc |-> "Err", calls |-> <<>>]
    ELSE [scale |-> [s EXCEPT !.last_send_action = "DOWNLOAD"],
          rc |-> IF ret = 0 THEN "Err"
                 ELSE IF Len(s.products) > s.product_idx + 1 THEN "OkTrue"
                 ELSE "OkFalse",
          calls |-> <<SendCall("DOWNLOAD", s.products[s.product_idx + 1], ret)>>]

\* The tail of recvproc's arms with the index rewound when the push fails.
PushAfterRecv_Rewinds(s, ret) ==
    LET r == push_plu(s, ret) IN
    IF r.rc = "Err"
    THEN [scale |-> [r.scale EXCEPT !.product_idx = 0],
          calls |-> r.calls \o <<DisconnectCall>>]
    ELSE [scale |-> [r.scale EXCEPT !.product_idx = @ + 1], calls |-> r.calls]

\* recvproc's two arms share this tail: push, then bump the index on any Ok.
PushAfterRecv(s, ret) ==
    LET r == push_plu(s, ret) IN
    IF r.rc = "Err"
    THEN [scale |-> r.scale, calls |-> r.calls \o <<DisconnectCall>>]
    ELSE [scale |-> [r.scale EXCEPT !.product_idx = @ + 1], calls |-> r.calls]

\* action: the wdAction of the callback; sentinel: the echoed record's name
\* starts with "W".
recvproc(s0, action, sentinel, ret) ==
    LET s == [s0 EXCEPT !.last_recv_action = action] IN
    CASE action = "DELETEALL" ->
            IF sentinel
            THEN PushAfterRecv([s EXCEPT !.delete_completed = TRUE], ret)
            ELSE [scale |-> s, calls |-> <<>>]
      [] action = "DOWNLOAD" ->
            PushAfterRecv([s EXCEPT !.plus_downloaded = @ + 1], ret)
      [] OTHER -> [scale |-> s, calls |-> <<>>]

\* stateproc without the should_delete test: the download starts at once.
stateproc_SkipsDelete(s0, state, ret) ==
    LET s == [s0 EXCEPT !.state = state] IN
    IF state = "CONNECT"
    THEN LET r == push_plu(s, ret) IN
         CASE r.rc = "OkTrue" ->
                 [scale |-> [r.scale EXCEPT !.product_idx = @ + 1], calls |-> r.calls]
           [] r.rc = "OkFalse" -> [scale |-> r.scale, calls |-> r.calls]
           [] OTHER -> [scale |-> r.scale, calls |-> r.calls \o <<DisconnectCall>>]
    ELSE [scale |-> s, calls |-> <<>>]

stateproc(s0, state, ret) ==
    LET s == [s0 EXCEPT !.state = state] IN
    IF state = "CONNECT"
    THEN IF s.should_delete
         THEN LET r == delete_plus(s, ret) IN [scale |-> r.scale, calls |-> r.calls]
         ELSE LET r == push_plu(s, ret) IN
              CASE r.rc = "OkTrue" ->
                      [scale |-> [r.scale EXCEPT !.product_idx = @ + 1],
                       calls |-> r.calls]
                [] r.rc = "OkFalse" -> [scale |-> r.scale, calls |-> r.calls]
                [] OTHER -> [scale |-> r.scale,
                             calls |-> r.calls \o <<DisconnectCall>>]
    ELSE [scale |-> s, calls |-> <<>>]

\* ------------------------------------------------------------------ vendor
\* What the vendor library does with the calls a handler made for address d.
RECURSIVE VendorLink(_, _)
VendorLink(l, calls) ==
    IF calls = <<>> THEN l
    ELSE VendorLink(IF Head(calls).call = "disconnect" THEN "closed" ELSE l,
                    Tail(calls))

RECURSIVE VendorInflight(_, _)
VendorInflight(q, calls) ==
    IF calls = <<>> THEN q
    ELSE LET c == Head(calls) IN
         VendorInflight(IF c.call = "disconnect" THEN <<>>
                        ELSE IF c.ret # 0 THEN Append(q, c.action)
                        ELSE q,
                        Tail(calls))

Sends(calls) == SelectSeq(calls, LAMBDA c : c.call = "send")
SendFailed(calls) == \E k \in 1..Len(calls) : calls[k].call = "send" /\ calls[k].ret = 0

Handled(d, r, l, q) ==
    /\ scales' = [scales EXCEPT ![d] = r.scale]
    /\ link' = [link EXCEPT ![d] = VendorLink(l, r.calls)]
    /\ inflight' = [inflight EXCEPT ![d] = VendorInflight(q, r.calls)]
    /\ sent' = [sent EXCEPT ![d] = @ \o Sends(r.calls)]
    /\ failed' = [failed EXCEPT ![d] = @ \/ SendFailed(r.calls)]
    /\ connected' = [connected EXCEPT ![d] = @ \/ link[d] = "connecting"]
    /\ UNCHANGED avars
    /\ UNCHANGED <<lvars, fvars>>
    /\ UNCHANGED <<args, weighed_items, pc, i, idx, ips, done, elapsed,
                   observed, prev_elapsed>>

\* ------------------------------------------------------------------ callbacks
\* The vendor reports CONNECT once for a connect call it accepted.
StateConnect(d) ==
    /\ d \in DOMAIN scales
    /\ link[d] = "connecting"
    /\ \E ret \in {0, 1} :
          Handled(d, stateproc(scales[d], "CONNECT", ret), "up", inflight[d])

\* A receive timeout: the vendor layer retries, the command stays in flight.
StateReceiveTimeOver(d) ==
    /\ d \in DOMAIN scales
    /\ link[d] = "up"
    /\ inflight[d] # <<>>
    /\ Handled(d, stateproc(scales[d], "RECEIVETIMEOVER", 1), "up", inflight[d])

StateUnhandled(d) ==
    /\ d \in DOMAIN scales
    /\ link[d] = "up"
    /\ inflight[d] # <<>>
    /\ \E st \in UnhandledStates :
          Handled(d, stateproc(scales[d], st, 1), "up", inflight[d])

\* The scale answers the oldest command in flight.  A delete-all is echoed
\* with or without the sentinel name; only the sentinel echo ends it.
RecvDeleteAll(d) ==
    /\ d \in DOMAIN scales
    /\ link[d] = "up"
    /\ inflight[d] # <<>>
    /\ Head(inflight[d]) = "DELETEALL"
    /\ \E sentinel \in BOOLEAN, ret \in {0, 1} :
          Handled(d, recvproc(scales[d], "DELETEALL", sentinel, ret), "up",
                  IF sentinel THEN Tail(inflight[d]) ELSE inflight[d])

RecvDownload(d) ==
    /\ d \in DOMAIN scales
    /\ link[d] = "up"
    /\ inflight[d] # <<>>
    /\ Head(inflight[d]) = "DOWNLOAD"
    /\ \E ret \in {0, 1} :
          Handled(d, recvproc(scales[d], "DOWNLOAD", FALSE, ret), "up",
                  Tail(inflight[d]))

\* ------------------------------------------------------------------ Scales::send
\* add_scale that inserts the record whatever the vendor call returned.
add_scale_InsertsAnyway(reg, ip, index, should_delete, ret) ==
    [scales |-> [a \in DOMAIN reg \cup {ip} |->
                   IF a = ip
                   THEN [Scale_new(ip) EXCEPT !.idx = index,
                                              !.should_delete = should_delete]
                   ELSE reg[a]],
     rc |-> ret # 0]

add_scale(reg, ip, index, should_delete, ret) ==
    IF ret # 0
    THEN [scales |-> [a \in DOMAIN reg \cup {ip} |->
                        IF a = ip
                        THEN [Scale_new(ip) EXCEPT !.idx = index,
                                                   !.should_delete = should_delete]
                        ELSE reg[a]],
          rc |-> TRUE]
    ELSE [scales |-> reg, rc |-> FALSE]

\* The timeout test without its timeout != 0 guard.
TimedOut_IgnoresZero(timeout, secs) == secs > timeout

\* The timeout test of the poll loop.
TimedOut(timeout, secs) == timeout # 0 /\ secs > timeout

\* The clock is read only by TimedOut: it is kept exact up to ElapsedCap, which
\* lies above every value the test can tell apart.
ElapsedCap == MaxTimeout + MaxJitter + 1
Tick(e, jitter) == IF e + 1 + jitter > ElapsedCap THEN ElapsedCap ELSE e + 1 + jitter

\* The keys with only one of them collected.
Orders_OneKey(S) == {q \in [1..(IF S = {} THEN 0 ELSE 1) -> S] : TRUE}

\* The keys with repetitions allowed.
Orders_Repeats(S) == [1..Cardinality(S) -> S]

Orders(S) == {q \in [1..Cardinality(S) -> S] : \A a \in S : \E k \in DOMAIN q : q[k] = a}

None == [a \in Addrs |-> FALSE]

Start ==
    /\ pc = "start"
    /\ pc' = IF Len(args.scale) > 0 THEN "add" ELSE "ok"
    /\ UNCHANGED avars
    /\ UNCHANGED <<args, weighed_items, scales, i, idx, ips, done, elapsed,
                   link, inflight, sent, failed, observed, prev_elapsed, connected>>
    /\ UNCHANGED <<lvars, fvars>>

AddScale ==
    /\ pc = "add"
    /\ \E ret \in {0, 1} :
          LET r == add_scale(scales, args.scale[i], idx, args.wipe, ret) IN
          /\ scales' = r.scales
          /\ idx' = IF r.rc THEN idx + 1 ELSE idx
          /\ link' = IF ret # 0 THEN [link EXCEPT ![args.scale[i]] = "added"] ELSE link
    /\ IF i < Len(args.scale)
       THEN i' = i + 1 /\ pc' = pc
       ELSE i' = 1 /\ pc' = "keys"
    /\ UNCHANGED avars
    /\ UNCHANGED <<args, weighed_items, ips, done, elapsed,
                   inflight, sent, failed, observed, prev_elapsed, connected>>
    /\ UNCHANGED <<lvars, fvars>>

\* cas.scales.keys(): the iteration order of a HashMap is arbitrary.
CollectIps ==
    /\ pc = "keys"
    /\ ips' \in Orders(DOMAIN scales)
    /\ IF ips' = <<>> THEN pc' = "check" ELSE pc' = "products"
    /\ UNCHANGED avars
    /\ UNCHANGED <<args, weighed_items, scales, i, idx, done, elapsed,
                   link, inflight, sent, failed, observed, prev_elapsed, connected>>
    /\ UNCHANGED <<lvars, fvars>>

SetProducts ==
    /\ pc = "products"
    /\ scales' = [scales EXCEPT ![ips[i]].products = weighed_items]
    /\ IF i < Len(ips)
       THEN i' = i + 1 /\ pc' = pc
       ELSE i' = 1 /\ pc' = "connect"
    /\ UNCHANGED avars
    /\ UNCHANGED <<args, weighed_items, idx, ips, done, elapsed,
                   link, inflight, sent, failed, observed, prev_elapsed, connected>>
    /\ UNCHANGED <<lvars, fvars>>

\* connect_scale: ret is what cas_connect returns (0: failure).
ConnectScale ==
    /\ pc = "connect"
    /\ \E ret \in {0, 1} :
          /\ link' = [link EXCEPT ![ips[i]] = IF ret # 0 THEN "connecting" ELSE "closed"]
          /\ failed' = [failed EXCEPT ![ips[i]] = @ \/ ret = 0]
    /\ IF i < Len(ips)
       THEN i' = i + 1 /\ pc' = pc
       ELSE i' = 1 /\ pc' = "poll"
    /\ UNCHANGED avars
    /\ UNCHANGED <<args, weighed_items, scales, idx, ips, done, elapsed,
                   inflight, sent, observed, prev_elapsed, connected>>
    /\ UNCHANGED <<lvars, fvars>>

\* done overwritten by each scale read, instead of only ever cleared.
PollDone_LastOnly(d0, c) == c

\* The done flag of a poll pass after reading one more scale.
PollDone(d0, c) == d0 /\ c

\* The read of one scale that never sets notified.
poll_scale_NeverNotified(s) ==
    [scale |-> s, complete |-> complete(s), logged |-> complete(s) /\ ~s.notified]

\* The read of one scale that also aligns the next-item index with the item
\* list once the scale is complete.
poll_scale_AlignsIndex(s) ==
    [scale |-> IF complete(s)
               THEN [s EXCEPT !.notified = TRUE, !.product_idx = Len(s.products)]
               ELSE s,
     complete |-> complete(s),
     logged |-> complete(s) /\ ~s.notified]

\* The body of the for loop for one scale record: the record it leaves, what
\* complete() returned, and whether the "is done" line was logged.
poll_scale(s) ==
    [scale |-> IF complete(s) THEN [s EXCEPT !.notified = TRUE] ELSE s,
     complete |-> complete(s),
     logged |-> complete(s) /\ ~s.notified]

\* One pass of the for loop in the poll loop, for the scale ips[i].
PollScale ==
    /\ pc = "poll"
    /\ LET d == ips[i]
           r == poll_scale(scales[d]) IN
       /\ scales' = [scales EXCEPT ![d] = r.scale]
       /\ done' = PollDone(done, r.complete)
       /\ observed' = [observed EXCEPT ![d] = r.complete]
    /\ IF i < Len(ips)
       THEN i' = i + 1 /\ pc' = pc
       ELSE i' = 1 /\ pc' = "check"
    /\ UNCHANGED avars
    /\ UNCHANGED <<args, weighed_items, idx, ips, elapsed,
                   link, inflight, sent, failed, prev_elapsed, connected>>
    /\ UNCHANGED <<lvars, fvars>>

LoopBreak ==
    /\ pc = "check"
    /\ done
    /\ pc' = "ok"
    /\ UNCHANGED avars
    /\ UNCHANGED <<args, weighed_items, scales, i, idx, ips, done, elapsed,
                   link, inflight, sent, failed, observed, prev_elapsed, connected>>
    /\ UNCHANGED <<lvars, fvars>>

LoopTimeout ==
    /\ pc = "check"
    /\ ~done
    /\ TimedOut(args.timeout, elapsed)
    /\ pc' = "timeout"
    /\ UNCHANGED avars
    /\ UNCHANGED <<args, weighed_items, scales, i, idx, ips, done, elapsed,
                   link, inflight, sent, failed, observed, prev_elapsed, connected>>
    /\ UNCHANGED <<lvars, fvars>>

\* thread::sleep(1 s), then the next pass starts with done = true.
LoopSleep ==
    /\ pc = "check"
    /\ ~done
    /\ ~TimedOut(args.timeout, elapsed)
    /\ \E jitter \in 0..MaxJitter : elapsed' = Tick(elapsed, jitter)
    /\ prev_elapsed' = elapsed
    /\ done' = TRUE
    /\ observed' = None
    /\ pc' = "poll"
    /\ UNCHANGED avars
    /\ UNCHANGED <<args, weighed_items, scales, i, idx, ips,
                   link, inflight, sent, failed, connected>>
    /\ UNCHANGED <<lvars, fvars>>

\* ------------------------------------------------------------------ PLU allocator
\* A PLU as the POS stores it: absent, a decimal number, or some other text.
NoPlu == [kind |-> "none", val |-> 0]
NumPlu(v) == [kind |-> "num", val |-> v]
TextPlu == [kind |-> "text", val |-> 0]

U16Max == 65535

\* plu.parse::<u16>()
parse_u16(plu) ==
    IF plu.kind = "num" /\ plu.val >= 0 /\ plu.val <= U16Max
    THEN [ok |-> TRUE, val |-> plu.val]
    ELSE [ok |-> FALSE, val |-> 0]

\* item.description.starts_with("(I)")
IsInternal(item) == item.description.marker

InternalLimit == 1000
InternalFloor == 1
StandardFloor == 1001

wrong_range(item, plu) ==
    (IsInternal(item) /\ plu >= InternalLimit)
        \/ (~IsInternal(item) /\ plu < InternalLimit)

\* The while loop of next_plu from start: the first value at or above start
\* that hs does not contain.  When every value up to U16Max is in hs,
\* probe + 1 overflows: a debug build panics (-1); a release build wraps to 0
\* and goes on, for ever (-2) when hs holds every 16-bit value.
FirstFree(hs, from, to) ==
    IF \E p \in from..to : p \notin hs
    THEN CHOOSE p \in from..to : p \notin hs /\ \A q \in from..(p - 1) : q \in hs
    ELSE -1

Probe(hs, start, release) ==
    LET reach == IF start + Cardinality(hs) < U16Max
                 THEN start + Cardinality(hs) ELSE U16Max
        up == FirstFree(hs, start, reach) IN
    IF up >= 0 THEN up
    ELSE IF ~release THEN -1
    ELSE IF FirstFree(hs, 0, start - 1) >= 0 THEN FirstFree(hs, 0, start - 1)
    ELSE -2

\* next_plu without hs.insert(probe).
next_plu_NoInsert(hs, item, release) ==
    LET probe == Probe(hs, IF IsInternal(item) THEN InternalFloor ELSE StandardFloor,
                       release) IN
    IF probe < 0
    THEN [ok |-> FALSE, plu |-> probe, hs |-> hs]
    ELSE [ok |-> TRUE, plu |-> probe, hs |-> hs]

next_plu(hs, item, release) ==
    LET probe == Probe(hs, IF IsInternal(item) THEN InternalFloor ELSE StandardFloor,
                       release) IN
    IF probe < 0
    THEN [ok |-> FALSE, plu |-> probe, hs |-> hs]
    ELSE [ok |-> TRUE, plu |-> probe, hs |-> hs \cup {probe}]

\* "(I)" sorts before every letter, so a marked description comes first.
DescriptionLess(x, y) ==
    \/ x.description.marker /\ ~y.description.marker
    \/ x.description.marker = y.description.marker
         /\ x.description.name < y.description.name
SectionLess(x, y) == x.section_id < y.section_id

Less(by, x, y) ==
    IF by = "description" THEN DescriptionLess(x, y) ELSE SectionLess(x, y)

\* A stable sort (itertools sorted_by / sorted_by_key): x is put behind the
\* last element that is not greater than it.
RECURSIVE InsertSorted(_, _, _)
InsertSorted(s, x, by) ==
    IF s = <<>> THEN <<x>>
    ELSE IF Less(by, x, s[Len(s)])
         THEN Append(InsertSorted(SubSeq(s, 1, Len(s) - 1), x, by), s[Len(s)])
         ELSE Append(s, x)

\* acc is s[1..Len(acc)] sorted; the elements up to s[hi] are inserted into
\* it from left to right, by halves.
RECURSIVE SortUpTo(_, _, _, _)
SortUpTo(acc, s, hi, by) ==
    LET lo == Len(acc) + 1 IN
    IF lo > hi THEN acc
    ELSE IF lo = hi THEN InsertSorted(acc, s[lo], by)
    ELSE SortUpTo(SortUpTo(acc, s, (lo + hi) \div 2, by), s, hi, by)

StableSort(s, by) == SortUpTo(<<>>, s, Len(s), by)

\* !x.deleted && upc_pat.is_match(&x.upc)
filter(x) == ~x.deleted /\ x.upc.matches

FilterSorted(c) ==
    StableSort(StableSort(SelectSeq(c, filter), "description"), "section_id")

FilterSort ==
    /\ pc = "fetch"
    /\ items' = FilterSorted(catalog)
    /\ pc' = "seed"
    /\ UNCHANGED <<catalog, existing_plu, seen_plu, plu_assignment, ai>>
    /\ UNCHANGED <<args, weighed_items, scales, i, idx, ips, done, elapsed,
                   link, inflight, sent, failed, observed, prev_elapsed, connected>>
    /\ UNCHANGED <<lvars, fvars>>

\* The first loop: every PLU present is parsed and unwrapped.
Seed ==
    /\ pc = "seed"
    /\ IF \E k \in 1..Len(items) :
             items[k].plu.kind # "none" /\ ~parse_u16(items[k].plu).ok
       THEN pc' = "panic" /\ UNCHANGED existing_plu
       ELSE /\ existing_plu' = {parse_u16(items[k].plu).val :
                                  k \in {j \in 1..Len(items) : items[j].plu.kind # "none"}}
            /\ pc' = IF Len(items) = 0 THEN "walked" ELSE "walk"
    /\ UNCHANGED <<catalog, items, seen_plu, plu_assignment, ai>>
    /\ UNCHANGED <<args, weighed_items, scales, i, idx, ips, done, elapsed,
                   link, inflight, sent, failed, observed, prev_elapsed, connected>>
    /\ UNCHANGED <<lvars, fvars>>

PLUAssignment(item, plu) == [upc |-> item.upc, plu |-> plu]

\* One iteration of the second loop for item, on the three collections of
\* the walk; fault tells how next_plu ended when it did not return.
WalkStep(st, item, release) ==
    LET plu == parse_u16(item.plu).val
        keep == item.plu.kind # "none"
                  /\ ~(plu \in st.seen_plu \/ wrong_range(item, plu))
        r == next_plu(st.existing_plu, item, release) IN
    IF keep
    THEN [st EXCEPT !.seen_plu = @ \cup {plu}]
    ELSE IF r.ok
    THEN [existing_plu |-> r.hs,
          seen_plu |-> st.seen_plu \cup {r.plu},
          plu_assignment |-> Append(st.plu_assignment, PLUAssignment(item, r.plu)),
          fault |-> "none"]
    ELSE [st EXCEPT !.fault = IF r.plu = -1 THEN "panic" ELSE "hang"]

WalkItem ==
    /\ pc = "walk"
    /\ \E release \in BOOLEAN :
          LET r == WalkStep([existing_plu |-> existing_plu, seen_plu |-> seen_plu,
                             plu_assignment |-> plu_assignment, fault |-> "none"],
                            items[ai], release) IN
          IF r.fault = "none"
          THEN /\ existing_plu' = r.existing_plu
               /\ seen_plu' = r.seen_plu
               /\ plu_assignment' = r.plu_assignment
               /\ pc' = IF ai < Len(items) THEN "walk" ELSE "walked"
               /\ ai' = ai + 1
          ELSE /\ pc' = r.fault
               /\ UNCHANGED <<existing_plu, plu_assignment, seen_plu, ai>>
    /\ UNCHANGED <<catalog, items>>
    /\ UNCHANGED <<args, weighed_items, scales, i, idx, ips, done, elapsed,
                   link, inflight, sent, failed, observed, prev_elapsed, connected>>
    /\ UNCHANGED <<lvars, fvars>>

\* next_plu on its own: one call for items[1] on the set existing_plu.
CallNextPlu ==
    /\ pc = "next_plu"
    /\ \E release \in BOOLEAN :
          LET r == next_plu(existing_plu, items[1], release) IN
          /\ existing_plu' = r.hs
          /\ plu_assignment' = IF r.ok THEN <<PLUAssignment(items[1], r.plu)>>
                               ELSE <<>>
          /\ pc' = IF r.ok THEN "returned"
                   ELSE IF r.plu = -1 THEN "panic" ELSE "hang"
    /\ UNCHANGED <<catalog, items, seen_plu, ai>>
    /\ UNCHANGED <<args, weighed_items, scales, i, idx, ips, done, elapsed,
                   link, inflight, sent, failed, observed, prev_elapsed, connected>>
    /\ UNCHANGED <<lvars, fvars>>

\* The POS after set_plu: every product named in the batch carries the PLU
\* the batch gives it (plua.plu.to_string()).
set_plu(cat, batch) ==
    [k \in DOMAIN cat |->
        IF \E j \in DOMAIN batch : batch[j].upc = cat[k].upc
        THEN [cat[k] EXCEPT !.plu =
                 NumPlu(batch[CHOOSE j \in DOMAIN batch : batch[j].upc = cat[k].upc].plu)]
        ELSE cat[k]]

\* The two loops of filtered_items over a whole list, as one function.
SeedOk(its) ==
    \A k \in DOMAIN its : its[k].plu.kind = "none" \/ parse_u16(its[k].plu).ok
SeedSet(its) ==
    {parse_u16(its[k].plu).val : k \in {j \in DOMAIN its : its[j].plu.kind # "none"}}

\* The second loop over its[lo..hi], by halves.
RECURSIVE Walk(_, _, _, _, _)
Walk(its, lo, hi, st, release) ==
    IF lo > hi \/ st.fault # "none" THEN st
    ELSE IF lo = hi THEN WalkStep(st, its[lo], release)
    ELSE LET mid == (lo + hi) \div 2 IN
         Walk(its, mid + 1, hi, Walk(its, lo, mid, st, release), release)

Allocate(cat, release) ==
    LET its == FilterSorted(cat) IN
    IF ~SeedOk(its)
    THEN [existing_plu |-> {}, seen_plu |-> {}, plu_assignment |-> <<>>,
          fault |-> "panic"]
    ELSE Walk(its, 1, Len(its),
              [existing_plu |-> SeedSet(its), seen_plu |-> {},
               plu_assignment |-> <<>>, fault |-> "none"], release)

\* api.get(...).await.expect("no results from API call")
FetchFails ==
    /\ pc = "fetch"
    /\ pc' = "panic"
    /\ UNCHANGED avars
    /\ UNCHANGED <<args, weighed_items, scales, i, idx, ips, done, elapsed,
                   link, inflight, sent, failed, observed, prev_elapsed, connected>>
    /\ UNCHANGED <<lvars, fvars>>

\* Where filtered_items goes on after set_plu and the second fetch.
PushEnd_GoesOn(outcome) == "final"
PushEnd(outcome) ==
    CASE outcome = "push_failed" -> "error"
      [] outcome = "fetch_failed" -> "panic"
      [] OTHER -> "final"

\* What the second GetAllProducts may return when the POS holds pos after the
\* push: pos, or pos with a product that somebody deleted in the meantime.
Refetch(pos) == {pos} \cup {[pos EXCEPT ![k].deleted = TRUE] : k \in DOMAIN pos}

\* The list kept after the push: the walked list, never the fetched one.
AfterPush_KeepsLocal(local, fetched) == local

\* The list after the push: the fetched one, filtered and sorted by section.
AfterPush(local, fetched) == StableSort(SelectSeq(fetched, filter), "section_id")

\* The batch is pushed and the catalog fetched again, filtered and sorted by
\* section; nothing of this happens without a correction.
Push ==
    /\ pc = "walked"
    /\ IF plu_assignment = <<>>
       THEN pc' = PushEnd("none") /\ UNCHANGED <<catalog, items>>
       ELSE /\ catalog' \in Refetch(set_plu(catalog, plu_assignment))
            /\ items' = AfterPush(items, catalog')
            /\ pc' = PushEnd("ok")
    /\ UNCHANGED <<existing_plu, seen_plu, plu_assignment, ai>>
    /\ UNCHANGED <<args, weighed_items, scales, i, idx, ips, done, elapsed,
                   link, inflight, sent, failed, observed, prev_elapsed, connected>>
    /\ UNCHANGED <<lvars, fvars>>

\* set_plu returns Err; the POS may or may not have taken the batch.
PushFails ==
    /\ pc = "walked"
    /\ plu_assignment # <<>>
    /\ catalog' \in {catalog, set_plu(catalog, plu_assignment)}
    /\ pc' = PushEnd("push_failed")
    /\ UNCHANGED <<items, existing_plu, seen_plu, plu_assignment, ai>>
    /\ UNCHANGED <<args, weighed_items, scales, i, idx, ips, done, elapsed,
                   link, inflight, sent, failed, observed, prev_elapsed, connected>>
    /\ UNCHANGED <<lvars, fvars>>

\* set_plu succeeds and the second fetch fails.
RefetchFails ==
    /\ pc = "walked"
    /\ plu_assignment # <<>>
    /\ catalog' = set_plu(catalog, plu_assignment)
    /\ pc' = PushEnd("fetch_failed")
    /\ UNCHANGED <<items, existing_plu, seen_plu, plu_assignment, ai>>
    /\ UNCHANGED <<args, weighed_items, scales, i, idx, ips, done, elapsed,
                   link, inflight, sent, failed, observed, prev_elapsed, connected>>
    /\ UNCHANGED <<lvars, fvars>>

\* The closure of the last filter.
handed(item, external) ==
    /\ item.plu.kind # "none"
    /\ parse_u16(item.plu).ok
    /\ ~(external /\ parse_u16(item.plu).val < InternalLimit)
    /\ item.upc.code

\* The last filter and the return into send: the items that remain are
\* handed on, each named by its place in the catalog; the locals are gone.
FinalFilter ==
    /\ pc = "final"
    /\ weighed_items' =
          LET kept == SelectSeq(items, LAMBDA x : handed(x, args.external)) IN
          [k \in DOMAIN kept |-> kept[k].upc.id]
    /\ items' = <<>>
    /\ existing_plu' = {}
    /\ seen_plu' = {}
    /\ plu_assignment' = <<>>
    /\ ai' = 1
    /\ pc' = "start"
    /\ UNCHANGED <<catalog, args, scales, i, idx, ips, done, elapsed,
                   link, inflight, sent, failed, observed, prev_elapsed, connected>>
    /\ UNCHANGED <<lvars, fvars>>

\* ------------------------------------------------------------------ jam
\* A String is a sequence of characters; as_bytes is its UTF-8 encoding.
\* The characters drawn: one of one byte, one of two bytes.
MaxText == 4
MaxCap == 5
Chars == {"A", "e'"}
Strings == UNION {[1..n -> Chars] : n \in 0..MaxText}
Utf8(c) == IF c = "A" THEN <<65>> ELSE <<195, 169>>

RECURSIVE as_bytes(_)
as_bytes(str) == IF str = <<>> THEN <<>> ELSE Utf8(Head(str)) \o as_bytes(Tail(str))

\* *const u8 read as *const i8, and back.
as_i8(b) == IF b < 128 THEN b ELSE b - 256
as_u8(x) == IF x < 0 THEN x + 256 ELSE x

\* A zero-filled [i8; cap], nothing written yet.
Zeroed(cap) == [buf |-> [k \in 1..cap |-> 0], written |-> {}]

\* ptr::copy of count bytes to the start of the buffer; written collects the
\* 0-based offsets stored to, inside the buffer or past its end.
Copy(bs, o, count) ==
    [buf |-> [k \in DOMAIN o.buf |-> IF k <= count THEN as_i8(bs[k]) ELSE o.buf[k]],
     written |-> o.written \cup {k - 1 : k \in 1..count}]

\* jam without the truncation.
jam_CopiesAll(str, o) == Copy(as_bytes(str), o, Len(as_bytes(str)))

\* jam that fills the buffer to its last byte.
jam_NoTerminator(str, o) ==
    LET bs == as_bytes(str)
        copylen == IF Len(bs) < Len(o.buf) THEN Len(bs) ELSE Len(o.buf) IN
    Copy(bs, o, copylen)

jam(str, o) ==
    LET bs == as_bytes(str)
        copylen == IF Len(bs) < Len(o.buf) THEN Len(bs) ELSE Len(o.buf) - 1 IN
    Copy(bs, o, copylen)

\* From<&ProductData>: a text is written into a field of the default record.
\* The fields written are [i8; 101] and [i8; 4097]; the capacities drawn are
\* small ones on both sides of the text's length.
Jam ==
    /\ pc = "jam"
    /\ \E cap \in 1..MaxCap : out' = jam(string, Zeroed(cap))
    /\ pc' = "jammed"
    /\ UNCHANGED <<string, pfa, csv>>
    /\ UNCHANGED avars
    /\ UNCHANGED lvars
    /\ UNCHANGED <<args, weighed_items, scales, i, idx, ips, done, elapsed,
                   link, inflight, sent, failed, observed, prev_elapsed, connected>>

\* ------------------------------------------------------------------ ProductFieldAssignments
\* A String is a sequence of characters; the file is one too.
MaxRows == 3
Upc == <<"u", "p", "c">>
Plu == <<"P", "L", "U">>
Comma == <<",">>
CRLF == <<"\r", "\n">>

\* The values offered to add: plain ones, an empty one and one with a comma.
Fields == {<<"7">>, <<"4", "2">>, <<>>, <<"7", ",">>}

\* The items offered to add: one value per header, and one item too short.
Items == [1..2 -> Fields] \cup {<< <<"7">> >>}

contains(str, c) == \E k \in DOMAIN str : str[k] = c

\* [String]::join
RECURSIVE join(_, _)
join(strs, sep) ==
    IF strs = <<>> THEN <<>>
    ELSE IF Len(strs) = 1 THEN strs[1]
    ELSE strs[1] \o sep \o join(Tail(strs), sep)

pfa_new(headers) == [headers |-> headers, items |-> <<>>]

pfa_add(p, item) ==
    IF Len(item) # Len(p.headers)
    THEN [pfa |-> p, rc |-> "bad item length"]
    ELSE LET fields == SelectSeq(item, LAMBDA x : ~contains(x, ",")) IN
         IF Len(fields) # Len(p.headers)
         THEN [pfa |-> p, rc |-> "values with commas not supported"]
         ELSE [pfa |-> [p EXCEPT !.items = Append(@, fields)], rc |-> "Ok"]

as_csv(p) ==
    join(p.headers, Comma) \o CRLF
        \o join([k \in DOMAIN p.items |-> join(p.items[k], Comma)], CRLF)
        \o CRLF

\* set_plu: one add per assignment, the first error ends the call.
PfaAdd ==
    /\ pc = "pfa"
    /\ Len(pfa.items) < MaxRows
    /\ \E item \in Items :
          LET r == pfa_add(pfa, item) IN
          /\ pfa' = r.pfa
          /\ pc' = IF r.rc = "Ok" THEN "pfa" ELSE "pfa_error"
    /\ UNCHANGED <<string, out, csv>>
    /\ UNCHANGED avars
    /\ UNCHANGED lvars
    /\ UNCHANGED <<args, weighed_items, scales, i, idx, ips, done, elapsed,
                   link, inflight, sent, failed, observed, prev_elapsed, connected>>

\* set_product_fields: the file is built from what was added.
AsCsv ==
    /\ pc = "pfa"
    /\ csv' = as_csv(pfa)
    /\ pc' = "csv"
    /\ UNCHANGED <<string, out, pfa>>
    /\ UNCHANGED avars
    /\ UNCHANGED lvars
    /\ UNCHANGED <<args, weighed_items, scales, i, idx, ips, done, elapsed,
                   link, inflight, sent, failed, observed, prev_elapsed, connected>>

\* ------------------------------------------------------------------ specification
Catalogs == {[k \in 1..n |-> k] : n \in 0..MaxItems}

Init ==
    /\ args \in [wipe : BOOLEAN, timeout : 0..MaxTimeout, scale : ScaleLists]
    /\ weighed_items \in Catalogs
    /\ scales = <<>>
    /\ pc = "start"
    /\ i = 1
    /\ idx = 1
    /\ ips = <<>>
    /\ done = TRUE
    /\ elapsed = 0
    /\ link = [a \in Addrs |-> "none"]
    /\ inflight = [a \in Addrs |-> <<>>]
    /\ sent = [a \in Addrs |-> <<>>]
    /\ failed = None
    /\ observed = None
    /\ prev_elapsed = 0
    /\ connected = None
    /\ LocksFree
    /\ NoText
    /\ catalog = <<>>
    /\ items = <<>>
    /\ existing_plu = {}
    /\ seen_plu = {}
    /\ plu_assignment = <<>>
    /\ ai = 1

Callback ==
    \E d \in Addrs :
        \/ StateConnect(d)
        \/ StateReceiveTimeOver(d)
        \/ StateUnhandled(d)
        \/ RecvDeleteAll(d)
        \/ RecvDownload(d)

Orchestrator ==
    \/ Start
    \/ AddScale
    \/ CollectIps
    \/ SetProducts
    \/ ConnectScale
    \/ PollScale
    \/ LoopBreak
    \/ LoopTimeout
    \/ LoopSleep

Next == Orchestrator \/ Callback

Spec == Init /\ [][Next]_vars

\* The allocator on its own, for every catalog the POS may return.
PluChoices == {NoPlu} \cup {NumPlu(v) : v \in {0, 1, InternalLimit, StandardFloor}}

\* The item at position k of the catalog.  A plain item passes the filter, is
\* in section 1 under a name that follows the catalog order and has a UPC
\* with characters at positions 3 to 7; the other kinds differ from it in one
\* field.
CatalogItem(k, kind, marker, plu) ==
    [upc |-> [id |-> k, matches |-> kind # "unweighed", code |-> kind # "shortupc"],
     description |-> [marker |-> marker, name |-> IF kind = "name0" THEN 0 ELSE k],
     section_id |-> IF kind = "section0" THEN 0 ELSE 1,
     deleted |-> (kind = "deleted"),
     plu |-> plu]

OtherKinds == {"deleted", "unweighed", "section0", "name0"}

\* A store whose internal items hold every PLU below InternalLimit, and one
\* more internal item that has none yet.
CrowdedCatalog ==
    [k \in 1..InternalLimit |->
        CatalogItem(k, "plain", TRUE,
                    IF k < InternalLimit THEN NumPlu(k) ELSE NoPlu)]

\* Catalogs of up to MaxCatalog items, at most one of them not plain, and the
\* crowded one.
InitAlloc ==
    /\ \/ \E n \in 0..MaxCatalog :
          \E c \in [1..n -> [marker : BOOLEAN, plu : PluChoices]] :
          \E odd \in 0..n :
          \E kind \in IF odd = 0 THEN {"plain"} ELSE OtherKinds :
             catalog = [k \in 1..n |->
                          CatalogItem(k, IF k = odd THEN kind ELSE "plain",
                                      c[k].marker, c[k].plu)]
       \/ catalog = CrowdedCatalog
    /\ pc = "fetch"
    /\ items = <<>>
    /\ existing_plu = {}
    /\ seen_plu = {}
    /\ plu_assignment = <<>>
    /\ ai = 1
    /\ args = [wipe |-> FALSE, timeout |-> 0, scale |-> <<>>]
    /\ weighed_items = <<>>
    /\ scales = <<>>
    /\ i = 1
    /\ idx = 1
    /\ ips = <<>>
    /\ done = TRUE
    /\ elapsed = 0
    /\ link = [a \in Addrs |-> "none"]
    /\ inflight = [a \in Addrs |-> <<>>]
    /\ sent = [a \in Addrs |-> <<>>]
    /\ failed = None
    /\ observed = None
    /\ prev_elapsed = 0
    /\ connected = None
    /\ LocksFree
    /\ NoText

NextAlloc == FilterSort \/ Seed \/ WalkItem

SpecAlloc == InitAlloc /\ [][NextAlloc]_vars

\* next_plu as a function of the set it probes: the set is empty, a whole
\* category range, both ranges or every 16-bit value, with a few values of
\* the range boundaries added.
InternalRange == InternalFloor..(InternalLimit - 1)
StandardRange == StandardFloor..U16Max
Blocks == {{}, InternalRange, StandardRange, InternalRange \cup StandardRange,
           0..U16Max}
Strays == SUBSET {0, InternalFloor, InternalLimit, StandardFloor}

InitNextPlu ==
    /\ \E block \in Blocks, stray \in Strays, marker \in BOOLEAN :
          /\ existing_plu = block \cup stray
          /\ items = <<CatalogItem(1, "plain", marker, NoPlu)>>
    /\ catalog = items
    /\ pc = "next_plu"
    /\ seen_plu = {}
    /\ plu_assignment = <<>>
    /\ ai = 1
    /\ args = [wipe |-> FALSE, timeout |-> 0, scale |-> <<>>]
    /\ weighed_items = <<>>
    /\ scales = <<>>
    /\ i = 1
    /\ idx = 1
    /\ ips = <<>>
    /\ done = TRUE
    /\ elapsed = 0
    /\ link = [a \in Addrs |-> "none"]
    /\ inflight = [a \in Addrs |-> <<>>]
    /\ sent = [a \in Addrs |-> <<>>]
    /\ failed = None
    /\ observed = None
    /\ prev_elapsed = 0
    /\ connected = None
    /\ LocksFree
    /\ NoText

SpecNextPlu == InitNextPlu /\ [][CallNextPlu]_vars

\* A whole run of Scales::send, from the first fetch to the end of the poll
\* loop, for one scale at most.  The catalog holds up to MaxItems items:
\* standard ones with a PLU of their own in the standard range, and at most
\* one that is different.
RunKinds == {"noplu", "textplu", "bigplu", "shortupc", "internal"}

RunItem(k, kind) ==
    CatalogItem(k, IF kind = "shortupc" THEN kind ELSE "plain", kind = "internal",
                CASE kind = "noplu" -> NoPlu
                  [] kind = "textplu" -> TextPlu
                  [] kind = "bigplu" -> NumPlu(U16Max + 1)
                  [] kind = "internal" -> NumPlu(k)
                  [] OTHER -> NumPlu(StandardFloor + k))

RunScaleLists == {<<>>, <<"s1">>}

InitRun ==
    /\ \E n \in 0..MaxItems :
       \E odd \in 0..n :
       \E kind \in IF odd = 0 THEN {"plain"} ELSE RunKinds :
          catalog = [k \in 1..n |-> RunItem(k, IF k = odd THEN kind ELSE "plain")]
    /\ args \in [wipe : BOOLEAN, timeout : 0..MaxTimeout, scale : RunScaleLists,
                  external : BOOLEAN]
    /\ pc = "fetch"
    /\ items = <<>>
    /\ existing_plu = {}
    /\ seen_plu = {}
    /\ plu_assignment = <<>>
    /\ ai = 1
    /\ weighed_items = <<>>
    /\ scales = <<>>
    /\ i = 1
    /\ idx = 1
    /\ ips = <<>>
    /\ done = TRUE
    /\ elapsed = 0
    /\ link = [a \in Addrs |-> "none"]
    /\ inflight = [a \in Addrs |-> <<>>]
    /\ sent = [a \in Addrs |-> <<>>]
    /\ failed = None
    /\ observed = None
    /\ prev_elapsed = 0
    /\ connected = None
    /\ LocksFree
    /\ NoText

NextRun ==
    \/ FetchFails
    \/ NextAlloc
    \/ Push
    \/ PushFails
    \/ RefetchFails
    \/ FinalFilter
    \/ Next

SpecRun == InitRun /\ [][NextRun]_vars

\* The locking of a run with both scales registered; nothing but the locks,
\* the threads and the record revisions moves.
InitLocks ==
    /\ LocksFree
    /\ NoText
    /\ args = [wipe |-> FALSE, timeout |-> 0, scale |-> Batch]
    /\ weighed_items = <<>>
    /\ scales = <<>>
    /\ pc = "locks"
    /\ i = 1
    /\ idx = 1
    /\ ips = <<>>
    /\ done = TRUE
    /\ elapsed = 0
    /\ link = [a \in Addrs |-> "none"]
    /\ inflight = [a \in Addrs |-> <<>>]
    /\ sent = [a \in Addrs |-> <<>>]
    /\ failed = None
    /\ observed = None
    /\ prev_elapsed = 0
    /\ connected = None
    /\ catalog = <<>>
    /\ items = <<>>
    /\ existing_plu = {}
    /\ seen_plu = {}
    /\ plu_assignment = <<>>
    /\ ai = 1

SpecLocks == InitLocks /\ [][NextLocks]_vars

\* No run of send is under way: its variables rest at their first values,
\* with pc naming what is being computed instead.
Halted(p) ==
    /\ LocksFree
    /\ args = [wipe |-> FALSE, timeout |-> 0, scale |-> <<>>]
    /\ weighed_items = <<>>
    /\ scales = <<>>
    /\ pc = p
    /\ i = 1
    /\ idx = 1
    /\ ips = <<>>
    /\ done = TRUE
    /\ elapsed = 0
    /\ link = [a \in Addrs |-> "none"]
    /\ inflight = [a \in Addrs |-> <<>>]
    /\ sent = [a \in Addrs |-> <<>>]
    /\ failed = None
    /\ observed = None
    /\ prev_elapsed = 0
    /\ connected = None
    /\ catalog = <<>>
    /\ items = <<>>
    /\ existing_plu = {}
    /\ seen_plu = {}
    /\ plu_assignment = <<>>
    /\ ai = 1

\* jam applied to every text of up to MaxText characters and every capacity
\* of up to MaxCap bytes.
InitJam ==
    /\ Halted("jam")
    /\ string \in Strings
    /\ out = Unbuilt
    /\ pfa = [headers |-> <<>>, items |-> <<>>]
    /\ csv = <<>>

SpecJam == InitJam /\ [][Jam]_vars

\* A ProductFieldAssignments built as set_plu builds it, with up to MaxRows
\* items added before the file is asked for.
InitCsv ==
    /\ Halted("pfa")
    /\ string = <<>>
    /\ out = Unbuilt
    /\ pfa = pfa_new(<<Upc, Plu>>)
    /\ csv = <<>>

NextCsv == PfaAdd \/ AsCsv

SpecCsv == InitCsv /\ [][NextCsv]_vars

\* The orchestrator is an ordinary thread: it keeps running, and its sleep returns.
SpecFair == Init /\ [][Next]_vars /\ WF_vars(Orchestrator)

\* ------------------------------------------------------------------ unknown addresses
\* Callbacks that name an address the registry does not hold.  A panic under
\* the guard of DLLAPI poisons the mutex, which shows as its owner.
Running == pc \in {"add", "keys", "products", "connect", "poll", "check"}
Poisoned == locks["DLLAPI"] = "poisoned"

\* stateproc: scales.get(&ip) is None, a warning is logged and 0 returned.
StateUnknown(d) ==
    /\ Running
    /\ ~Poisoned
    /\ d \notin DOMAIN scales
    /\ UNCHANGED vars

\* recvproc: scales.get(&ip).unwrap() panics inside the extern "C" function,
\* with the guard of DLLAPI alive.  Either the process is aborted, or the
\* stack unwinds out of the callback and the guard poisons DLLAPI.
RecvUnknown(d) ==
    /\ Running
    /\ ~Poisoned
    /\ d \notin DOMAIN scales
    /\ \/ pc' = "abort" /\ UNCHANGED locks
       \/ pc' = pc /\ locks' = [locks EXCEPT !["DLLAPI"] = "poisoned"]
    /\ UNCHANGED avars
    /\ UNCHANGED <<threads, rev, fvars>>
    /\ UNCHANGED <<args, weighed_items, scales, i, idx, ips, done, elapsed,
                   link, inflight, sent, failed, observed, prev_elapsed, connected>>

\* DLLAPI.lock().unwrap() of the next loop iteration on the poisoned mutex.
PoisonedLock ==
    /\ Poisoned
    /\ pc \in {"add", "keys", "products", "connect", "poll"}
    /\ pc' = "panic"
    /\ UNCHANGED avars
    /\ UNCHANGED <<lvars, fvars>>
    /\ UNCHANGED <<args, weighed_items, scales, i, idx, ips, done, elapsed,
                   link, inflight, sent, failed, observed, prev_elapsed, connected>>

\* A run in which the vendor library also reports on addresses that are not
\* registered.  On a poisoned DLLAPI only the steps that take no lock go on.
NextStray ==
    \/ (Poisoned => pc \in {"start", "check"}) /\ Orchestrator
    \/ ~Poisoned /\ Callback
    \/ \E d \in Addrs : StateUnknown(d)
    \/ \E d \in Addrs : RecvUnknown(d)
    \/ PoisonedLock

SpecStray == Init /\ [][NextStray]_vars

\* The vendor library delivers what it has to deliver: the CONNECT report of
\* a connection it accepted and the answer to the oldest command in flight.
Answer(d) == StateConnect(d) \/ RecvDeleteAll(d) \/ RecvDownload(d)

SpecLive ==
    /\ Init
    /\ [][Next]_vars
    /\ WF_vars(Orchestrator)
    /\ \A d \in Addrs : WF_vars(Answer(d))

\* ------------------------------------------------------------------ claims
Registered == DOMAIN scales
Downloads(d) == SelectSeq(sent[d], LAMBDA c : c.action = "DOWNLOAD")
Deletes(d) == SelectSeq(sent[d], LAMBDA c : c.action = "DELETEALL")

\* C1: once a poll has evaluated complete() true for a device (which is what
\* sets notified), complete() is true of that device in every later state.
C1_CompleteStays ==
    \A d \in Registered : scales[d].notified => complete(scales[d])

\* C2: a download acknowledgment adds one to the downloaded count, and an item
\* record is sent in that callback exactly when the new count is below the
\* number of items; with the count at the number of items no item is sent.
C2_SendIffBelow ==
    [][\A d \in Registered :
         /\ RecvDownload(d) =>
              /\ scales'[d].plus_downloaded = scales[d].plus_downloaded + 1
              /\ (Len(Downloads(d)') > Len(Downloads(d)))
                   <=> (scales'[d].plus_downloaded < Len(scales'[d].products))
         /\ (connected[d] /\ scales[d].plus_downloaded >= Len(scales[d].products))
              => Downloads(d)' = Downloads(d)]_vars

\* C3: after the connected callback of a device with should_delete the first
\* command sent is the delete-all, and no item record is sent while
\* delete_completed is false; without should_delete the first command sent
\* is the item at index 0 and no delete-all is ever sent.
C3_DeleteBeforeItems ==
    \A d \in Registered :
        connected[d] =>
            IF scales[d].should_delete
            THEN /\ Len(sent[d]) >= 1
                 /\ sent[d][1].action = "DELETEALL"
                 /\ ~scales[d].delete_completed => Downloads(d) = <<>>
            ELSE /\ Deletes(d) = <<>>
                 /\ Len(scales[d].products) > 0 =>
                       /\ Len(sent[d]) >= 1
                       /\ sent[d][1].action = "DOWNLOAD"
                       /\ sent[d][1].item = scales[d].products[1]

C3_Witness ==
    \E d \in Registered :
        /\ connected[d]
        /\ scales[d].should_delete
        /\ scales[d].delete_completed
        /\ Len(sent[d]) >= 2
        /\ sent[d][2].action = "DOWNLOAD"

\* C4: a receive-timeout or unhandled state callback leaves the protocol state,
\* the cursors and the delete flags of the device as they were.
C4_BenignStateIgnored ==
    [][\A d \in Registered :
         (StateReceiveTimeOver(d) \/ StateUnhandled(d)) =>
              /\ scales'[d].state = scales[d].state
              /\ scales'[d].plus_downloaded = scales[d].plus_downloaded
              /\ scales'[d].product_idx = scales[d].product_idx
              /\ scales'[d].should_delete = scales[d].should_delete
              /\ scales'[d].delete_completed = scales[d].delete_completed]_vars

\* C5: a device whose connect or send failed is left out of the polling: the
\* run ends in Timeout only when a device without a failed call was read
\* incomplete in the last pass.
C5_FailedExcluded ==
    pc = "timeout" =>
        \E d \in Registered : ~failed[d] /\ ~observed[d]

\* C6: with no callback ever arriving, the Timeout error is returned at the
\* first poll at which at least T seconds have elapsed: T or more seconds at
\* that poll, fewer than T at the poll before it.
C6_TimeoutAtT ==
    (pc = "timeout" /\ \A d \in Addrs : ~connected[d]) =>
        (elapsed >= args.timeout /\ prev_elapsed < args.timeout)

\* C7: the poll loop leaves its check with success exactly when every
\* registered device was read complete in the pass just finished, whatever
\* the elapsed time.
C7_SuccessIffAllComplete ==
    [][(pc = "check" /\ pc' # "check") =>
          ((pc' = "ok") <=> (\A d \in Registered : observed[d]))]_vars

C7_Witness ==
    /\ pc = "ok"
    /\ Registered # {}
    /\ args.timeout # 0
    /\ elapsed > args.timeout

\* C8: with timeout # 0 the run terminates, in success or in Timeout; success
\* is returned only with every registered device read complete, so a run with
\* a device that never satisfies complete() ends in Timeout, whatever was
\* downloaded; with timeout = 0 Timeout is never returned.
C8_Terminates ==
    /\ [](args.timeout = 0 => pc # "timeout")
    /\ [](pc = "ok" => \A d \in Registered : observed[d] /\ scales[d].notified)
    /\ (args.timeout # 0) => <>(pc \in {"ok", "timeout"})

C8_Witness ==
    /\ pc = "timeout"
    /\ \E d \in Registered : scales[d].plus_downloaded > 0

\* The PLU of items[k] once the corrections are applied: its correction's
\* value if it has one, its own PLU otherwise.
FinalPlu(k) ==
    LET mine == {j \in 1..Len(plu_assignment) : plu_assignment[j].upc = items[k].upc} IN
    IF mine # {} THEN plu_assignment[CHOOSE j \in mine : \A m \in mine : m <= j].plu
    ELSE IF items[k].plu.kind = "none" THEN -1
    ELSE parse_u16(items[k].plu).val

InCategoryRange(item, plu) ==
    IF IsInternal(item) THEN plu >= 1 /\ plu < InternalLimit
    ELSE plu >= InternalLimit /\ plu <= U16Max

\* C9: after the walk, with the corrections applied, every item has a PLU and
\* the PLUs of the items are pairwise distinct.
C9_PluUnique ==
    pc = "walked" =>
        \A j, k \in 1..Len(items) :
            /\ FinalPlu(k) >= 0
            /\ j # k => FinalPlu(j) # FinalPlu(k)

C9_Witness ==
    /\ pc = "walked"
    /\ Len(plu_assignment) >= 2
    /\ \E j, k \in 1..Len(items) :
          j # k /\ items[j].plu.kind = "num" /\ items[j].plu = items[k].plu
    /\ \E k \in 1..Len(items) :
          items[k].plu.kind = "num" /\ wrong_range(items[k], items[k].plu.val)
    /\ \E k \in 1..Len(items) : items[k].plu.kind = "none"

\* C10: every item whose PLU lies outside the range of its category ([1, 999]
\* with the internal marker, [1000, 65535] without) gets a correction whose
\* value lies in that range and differs from the PLU of every other item.
C10_RangeCorrected ==
    pc = "walked" =>
        \A k \in 1..Len(items) :
            (items[k].plu.kind = "num"
               /\ ~InCategoryRange(items[k], parse_u16(items[k].plu).val)) =>
                 /\ \E j \in 1..Len(plu_assignment) : plu_assignment[j].upc = items[k].upc
                 /\ InCategoryRange(items[k], FinalPlu(k))
                 /\ \A j \in 1..Len(items) : j # k => FinalPlu(j) # FinalPlu(k)

\* C11: when the walk is over, a second run of the allocator on the catalog
\* that carries the corrections of the first one makes no correction.
C11_RerunMakesNone ==
    pc = "walked" =>
        \A release \in BOOLEAN :
            LET again == Allocate(set_plu(catalog, plu_assignment), release) IN
            again.fault = "none" /\ again.plu_assignment = <<>>

\* C12: a value next_plu returns is at or above the floor of the item's
\* category, is not in the set it probed, has every value between the floor
\* and itself in that set, and is in the set when the call is over.
C12_SmallestUnclaimed ==
    [][(CallNextPlu /\ pc' = "returned") =>
          LET floor == IF IsInternal(items[1]) THEN InternalFloor ELSE StandardFloor
              new_plu == plu_assignment'[1].plu IN
          /\ new_plu >= floor
          /\ new_plu \notin existing_plu
          /\ \A v \in floor..(new_plu - 1) : v \in existing_plu
          /\ new_plu \in existing_plu']_vars

\* C13: when the set holds the whole range of the item's category, next_plu
\* ends with an error; it never returns a value outside that range, never
\* panics on the 16-bit overflow and never probes for ever.
C13_ExhaustionReported ==
    [][CallNextPlu =>
          LET range == IF IsInternal(items[1]) THEN InternalRange ELSE StandardRange IN
          /\ range \subseteq existing_plu => pc' = "error"
          /\ pc' = "returned" => plu_assignment'[1].plu \in range
          /\ pc' \notin {"panic", "hang"}]_vars

\* C14: the first loop of the allocator never panics, and every item handed
\* to the scales has a PLU that parses as a 16-bit number and a UPC with
\* characters at positions 3 to 7.
C14_BadItemsDropped ==
    /\ [][Seed => pc' # "panic"]_vars
    /\ [](\A k \in DOMAIN weighed_items :
             LET item == catalog[weighed_items[k]] IN
             parse_u16(item.plu).ok /\ item.upc.code)

\* C15: a failed fetch or a failed push ends the run in failure, and a run
\* that ended so has added no scale, connected none and sent no command.
Untouched ==
    /\ scales = <<>>
    /\ \A a \in Addrs : link[a] = "none" /\ sent[a] = <<>> /\ inflight[a] = <<>>

Waits(t, l) ==
    \/ threads[t].step = "lock_dll" /\ l = "DLLAPI"
    \/ threads[t].step = "lock_scale" /\ l = threads[t].ip

C16_NoWaitAcrossScales ==
    \A t \in VendorThreads, u \in VendorThreads, l \in DOMAIN locks :
        (Waits(t, l) /\ locks[l] = u) => threads[u].ip = threads[t].ip

\* C17: while main is inside a vendor add or connect call or asleep between
\* two poll passes, it holds no mutex, so that no callback waits for it.
C17_NoLockInVendorCall ==
    (threads["main"].step = "sleep" \/ InVendorCall(threads["main"]))
        => \A l \in DOMAIN locks : locks[l] # "main"

\* C18: while a thread is between its read and its last write of a scale
\* record, the record is as that thread read or wrote it, and no other
\* thread is between a read and a write of the same record.
InRecord(t) ==
    /\ WritesRecord(threads[t].phase)
    /\ threads[t].step \in {"body", "call"}

C18_RecordSerialized ==
    \A t \in Threads :
        InRecord(t) =>
            /\ rev[threads[t].ip] = threads[t].seen
            /\ \A u \in Threads \ {t} :
                  ~(InRecord(u) /\ threads[u].ip = threads[t].ip)

\* A callback and the poll pass meet on one record: one is inside, the other
\* waits, and the record has been written before.
C18_Witness ==
    /\ InRecord("v1")
    /\ threads["v1"].ip = "s1"
    /\ threads["main"].phase = "poll"
    /\ threads["main"].ip = "s1"
    /\ threads["main"].step = "lock_dll"
    /\ threads["v2"].ip = "s1"
    /\ threads["v2"].step = "lock_dll"
    /\ rev["s1"] > 0

\* C19: when a vendor send made inside a callback for scale d fails, the
\* vendor disconnect is called for d, and for every other scale the record,
\* the connection and the commands sent stay as they were.
SendFailedIn(d) ==
    /\ Len(sent'[d]) > Len(sent[d])
    /\ sent'[d][Len(sent'[d])].ret = 0

C19_FailureIsolated ==
    [][\A d \in Registered :
         ((StateConnect(d) \/ RecvDeleteAll(d) \/ RecvDownload(d)) /\ SendFailedIn(d)) =>
              /\ link'[d] = "closed"
              /\ \A e \in Registered \ {d} :
                    /\ scales'[e] = scales[e]
                    /\ link'[e] = link[e]
                    /\ sent'[e] = sent[e]
                    /\ inflight'[e] = inflight[e]]_vars

\* C20: add_scale on a failed vendor call returns false with the registry it
\* was given, and an add step after which the vendor has no connection for
\* the address leaves the registry and the next connection index alone.
C20_FailedAddNoEffect ==
    /\ [](pc = "add" =>
             add_scale(scales, args.scale[i], idx, args.wipe, 0)
                 = [scales |-> scales, rc |-> FALSE])
    /\ [][(AddScale /\ link'[args.scale[i]] # "added") =>
             (scales' = scales /\ idx' = idx)]_vars

\* The first add failed and the second one got the first index.
C20_Witness ==
    /\ pc = "keys"
    /\ link["s1"] = "none"
    /\ DOMAIN scales = {"s2"}
    /\ scales["s2"].idx = 1
    /\ idx = 2

\* C21: the add loop is left only after its last address; from the first
\* poll pass on, exactly the addresses the vendor added are registered, each
\* of them had its connect call and is in the list a poll pass reads to its
\* end, and an address whose add failed has no connection, is not read and
\* was sent nothing.
Polled == {ips[k] : k \in DOMAIN ips}

C21_AddContinues ==
    /\ [][(pc = "add" /\ pc' # "add") => i = Len(args.scale)]_vars
    /\ [][(pc = "poll" /\ pc' # "poll") => i = Len(ips)]_vars
    /\ [](pc \in {"poll", "check", "ok", "timeout"} =>
             \A k \in DOMAIN args.scale :
                 LET d == args.scale[k] IN
                 IF link[d] = "none"
                 THEN d \notin Registered /\ d \notin Polled /\ sent[d] = <<>>
                 ELSE /\ d \in Registered /\ d \in Polled
                      /\ link[d] \in {"connecting", "up", "closed"})

\* The first add failed, the second scale was connected and read by a pass.
C21_Witness ==
    /\ pc = "check"
    /\ args.scale = <<"s1", "s2">>
    /\ link["s1"] = "none"
    /\ link["s2"] = "up"
    /\ Polled = {"s2"}

\* C22: as long as the add loop, the key collection or the product loop runs
\* no connect call was made; a connect call is made only for a scale that
\* had none before, the connect loop is left only after its last scale, and
\* then every registered scale had its call.
C22_ConnectAfterAdds ==
    /\ [](pc \in {"start", "add", "keys", "products"} =>
             \A d \in Addrs : link[d] \in {"none", "added"})
    /\ [][ConnectScale => link[ips[i]] = "added"]_vars
    /\ [][(pc = "connect" /\ pc' # "connect") => i = Len(ips)]_vars
    /\ [](pc \in {"poll", "check", "ok", "timeout"} =>
             \A d \in Registered : link[d] # "added")

\* The connect of the first scale in the list failed, the one after it was
\* connected.
C22_Witness ==
    /\ pc = "poll"
    /\ Len(ips) = 2
    /\ link[ips[1]] = "closed"
    /\ failed[ips[1]]
    /\ link[ips[2]] = "connecting"

\* C23: whenever a delete-all receive callback is due for a scale that has
\* items, the handler run on an echo with the sentinel sets delete_completed
\* and sends the first item, and run on any other echo it leaves
\* delete_completed and both cursors alone and makes no vendor call.
C23_SentinelDecides ==
    \A d \in Registered :
        (link[d] = "up" /\ inflight[d] # <<>> /\ Head(inflight[d]) = "DELETEALL"
            /\ Len(scales[d].products) > 0) =>
        \A ret \in {0, 1} :
            LET ack == recvproc(scales[d], "DELETEALL", TRUE, ret)
                other == recvproc(scales[d], "DELETEALL", FALSE, ret) IN
            /\ ack.scale.delete_completed
            /\ Sends(ack.calls) = <<SendCall("DOWNLOAD", scales[d].products[1], ret)>>
            /\ other.scale.delete_completed = scales[d].delete_completed
            /\ other.scale.plus_downloaded = scales[d].plus_downloaded
            /\ other.scale.product_idx = scales[d].product_idx
            /\ other.calls = <<>>

\* The record after the download acknowledgments whose pushes return rets.
RECURSIVE AfterAcks(_, _)
AfterAcks(s, rets) ==
    IF rets = <<>> THEN s
    ELSE AfterAcks(recvproc(s, "DOWNLOAD", FALSE, Head(rets)).scale, Tail(rets))

\* The record of a scale added without wipe, holding the items its, after the
\* connected callback.
ConnectedRecord(its, ret) ==
    stateproc([Scale_new("s1") EXCEPT !.should_delete = FALSE, !.products = its],
              "CONNECT", ret).scale

\* C24: for a catalog of n items and should_delete = false, after the
\* connected callback followed by k <= n download acknowledgments the
\* completion predicate is true exactly when k = n, whatever the sends
\* return; in a run, each download acknowledgment raises the downloaded count
\* by one and nothing else changes it, and a scale added without wipe is
\* complete exactly when that count equals the number of its items.  For the
\* catalog of three items: false after two acknowledgments, true after three.
C24_CompleteAfterAllAcks ==
    /\ [](\A d \in Registered :
            (link[d] = "connecting" /\ ~scales[d].should_delete) =>
            \A ret \in {0, 1}, k \in 0..Len(scales[d].products) :
                \A rets \in [1..k -> {0, 1}] :
                    complete(AfterAcks(stateproc(scales[d], "CONNECT", ret).scale, rets))
                        <=> (k = Len(scales[d].products)))
    /\ [](\A d \in Registered :
            ~scales[d].should_delete =>
            (complete(scales[d]) <=>
                scales[d].plus_downloaded = Len(scales[d].products)))
    /\ [][\A d \in Registered :
            IF RecvDownload(d)
            THEN scales'[d].plus_downloaded = scales[d].plus_downloaded + 1
            ELSE scales'[d].plus_downloaded = scales[d].plus_downloaded]_vars
    /\ [](\A ret \in {0, 1}, k \in 0..3 : \A rets \in [1..k -> {0, 1}] :
            complete(AfterAcks(ConnectedRecord(<<1, 2, 3>>, ret), rets)) <=> (k = 3))

C24_Witness ==
    \E d \in Registered :
        /\ ~scales[d].should_delete
        /\ connected[d]
        /\ Len(scales[d].products) > 1
        /\ scales[d].plus_downloaded = Len(scales[d].products)
        /\ Len(Downloads(d)) = Len(scales[d].products)
        /\ complete(scales[d])

\* C25: the download cursor of a registered scale never decreases: no
\* callback, poll or orchestrator step lowers its downloaded count or its
\* next-item index, and no step drops its record.
C25_CursorMonotonic ==
    [][\A d \in Registered :
          /\ d \in DOMAIN scales'
          /\ scales'[d].plus_downloaded >= scales[d].plus_downloaded
          /\ scales'[d].product_idx >= scales[d].product_idx]_vars

C25_Witness ==
    \E d \in Registered :
        /\ scales[d].plus_downloaded > 0
        /\ scales[d].product_idx > 0
        /\ link[d] = "closed"
        /\ pc = "poll"

\* The poll step for the scale d that logs the completion line.
LogsDone(d) == PollScale /\ ips[i] = d /\ poll_scale(scales[d]).logged

\* C26: at most one completion line is logged per scale and session: the
\* line is logged by the first poll that reads the scale complete, that poll
\* sets notified, only such a poll sets it, no step clears it, and a poll of
\* a notified scale logs nothing, whatever callbacks arrived since.
C26_OneCompletionLine ==
    [][\A d \in Registered :
          /\ LogsDone(d) => (~scales[d].notified /\ scales'[d].notified)
          /\ (PollScale /\ ips[i] = d /\ complete(scales[d]) /\ ~scales[d].notified)
                => LogsDone(d)
          /\ (PollScale /\ ips[i] = d /\ scales[d].notified) => ~LogsDone(d)
          /\ scales[d].notified => scales'[d].notified
          /\ (~scales[d].notified /\ scales'[d].notified) => LogsDone(d)]_vars

\* A notified scale that is polled again, complete or no longer complete.
C26_Witness ==
    /\ pc = "poll"
    /\ scales[ips[i]].notified
    /\ ~complete(scales[ips[i]])
    /\ elapsed > 0

\* A step of the poll loop: the read of one scale, or the tests and the sleep
\* that end a pass.
PollStep == PollScale \/ LoopBreak \/ LoopTimeout \/ LoopSleep

\* C27: a poll iteration changes no scale's protocol state, cursors,
\* should_delete, delete_completed or item list, adds and drops no record,
\* and makes no vendor call (nothing is sent, no connection changes); the
\* only field it may write is notified.
C27_PollWritesNotifiedOnly ==
    [][PollStep =>
          /\ DOMAIN scales' = DOMAIN scales
          /\ \A d \in Registered :
                [scales'[d] EXCEPT !.notified = scales[d].notified] = scales[d]
          /\ sent' = sent
          /\ inflight' = inflight
          /\ link' = link]_vars

\* A poll has set notified on one scale while another is still downloading.
C27_Witness ==
    /\ pc = "check"
    /\ \E d, e \in Registered :
          /\ scales[d].notified
          /\ ~scales[e].notified
          /\ scales[e].state = "CONNECT"
          /\ inflight[e] # <<>>

\* C28: a text of L bytes written into a zero-filled buffer of capacity C is
\* copied whole and unchanged when L < C, and its first C-1 bytes are when
\* L >= C; no byte at or beyond offset C is written, the byte after the
\* copied text lies in the buffer and is 0, and so is the rest of the buffer.
C28_JamFits ==
    pc = "jammed" =>
        LET bs == as_bytes(string)
            L == Len(bs)
            C == Len(out.buf)
            n == IF L < C THEN L ELSE C - 1 IN
        /\ \A k \in 1..n : as_u8(out.buf[k]) = bs[k]
        /\ out.written = {k - 1 : k \in 1..n}
        /\ \A w \in out.written : w < C
        /\ n + 1 <= C
        /\ \A k \in (n + 1)..C : out.buf[k] = 0

\* A text of two-byte characters cut to the capacity less one.
C28_Witness ==
    /\ pc = "jammed"
    /\ Len(as_bytes(string)) > Len(out.buf)
    /\ Len(out.buf) > 2
    /\ out.buf[Len(out.buf) - 1] < 0
    /\ out.buf[Len(out.buf)] = 0

\* The filtered catalog ordered by section id alone, ties in catalog order.
BySection(c) == StableSort(SelectSeq(c, filter), "section_id")

\* C29: the allocator walks the filtered items ordered by section id, items
\* of equal section id in their catalog order, so that the corrections made
\* are the ones a walk in that order makes.
C29_CatalogOrderDecides ==
    pc # "fetch" => items = BySection(catalog)

\* One line of the file: the values joined by commas, then CRLF.
Line(values) == join(values, Comma) \o CRLF

\* The lines of the items from position k on, one after the other.
RECURSIVE Lines(_, _)
Lines(its, k) == IF k > Len(its) THEN <<>> ELSE Line(its[k]) \o Lines(its, k + 1)

Corrections(k) == {j \in 1..Len(plu_assignment) : plu_assignment[j].upc = items[k].upc}

\* C31: when the walk is over, an item has a correction exactly when it has
\* no PLU, or its PLU lies outside the range of its category, or an item
\* earlier in the walk has claimed that PLU (kept it or received it); every
\* other item keeps its PLU, and no item has more than one correction.
C31_CorrectedIffBad ==
    pc = "walked" =>
        \A k \in 1..Len(items) :
            LET plu == parse_u16(items[k].plu).val IN
            /\ Corrections(k) # {} <=>
                  \/ items[k].plu.kind = "none"
                  \/ ~InCategoryRange(items[k], plu)
                  \/ \E j \in 1..(k - 1) : FinalPlu(j) = plu
            /\ Corrections(k) = {} => FinalPlu(k) = plu
            /\ Cardinality(Corrections(k)) <= 1

\* C32: the batch is pushed exactly once when there is a correction and not
\* at all otherwise: the POS catalog changes only in the one step that
\* follows the walk, and only with a correction to push.  After a successful
\* push the list is the re-fetched catalog, filtered and sorted by section,
\* and the list handed to the scales is drawn from it; with no correction
\* the catalog is not fetched again and the walked list is handed on.
C32_PushOnceThenRefetch ==
    /\ [][catalog' # catalog => (pc = "walked" /\ plu_assignment # <<>>)]_vars
    /\ [][pc = "walked" => pc' # "walked"]_vars
    /\ [][pc' = "walked" => pc \in {"seed", "walk"}]_vars
    /\ [][Push =>
            IF plu_assignment = <<>>
            THEN catalog' = catalog /\ items' = items
            ELSE items' = BySection(catalog')]_vars
    /\ [](pc = "final" =>
            items = IF plu_assignment = <<>> THEN FilterSorted(catalog)
                    ELSE BySection(catalog))
    /\ [][FinalFilter =>
            \A k \in DOMAIN catalog :
                (\E j \in DOMAIN weighed_items' : weighed_items'[j] = k) <=>
                    (\E j \in DOMAIN items : items[j] = catalog[k]
                                               /\ handed(catalog[k], args.external))]_vars

\* A correction was pushed, and the list handed on lacks an item that the
\* walk had and that was deleted before the second fetch.
C32_Witness ==
    /\ pc = "start"
    /\ Len(catalog) = 2
    /\ Len(weighed_items) = 1
    /\ \E k \in DOMAIN catalog : catalog[k].deleted /\ handed(catalog[k], args.external)

\* C33: when the vendor send of the delete-all command fails, the scale is
\* disconnected in the same callback and the failure is recorded for it; no
\* connected scale waits for a delete acknowledgment while no delete-all
\* command is on its way.
C33_DeleteFailureSurfaced ==
    /\ [][\A d \in Registered :
            (StateConnect(d) /\ scales[d].should_delete /\ SendFailedIn(d)) =>
                link'[d] = "closed"]_vars
    /\ [](\A d \in Registered :
            (link[d] = "up" /\ scales[d].should_delete /\ ~scales[d].delete_completed) =>
                \E k \in DOMAIN inflight[d] : inflight[d][k] = "DELETEALL")

\* The steps of send from the first connect call on.
Connecting == pc \in {"connect", "poll", "check", "ok", "timeout"}

\* C34: when a connect call is issued, and from then on, the item list of
\* every registered scale is the one corrected catalog; from the first
\* connect call on no step changes the catalog or the item list of a scale,
\* and no scale is added or dropped.
C34_SharedListFixed ==
    /\ [][ConnectScale => \A d \in Registered : scales[d].products = weighed_items]_vars
    /\ [](Connecting => \A d \in Registered : scales[d].products = weighed_items)
    /\ [][Connecting =>
            /\ weighed_items' = weighed_items
            /\ DOMAIN scales' = DOMAIN scales
            /\ \A d \in Registered : scales'[d].products = scales[d].products]_vars

\* Both scales hold the list while one of them is half way through it.
C34_Witness ==
    /\ pc = "poll"
    /\ Registered = Addrs
    /\ Len(weighed_items) = 2
    /\ scales["s1"].plus_downloaded = 1
    /\ scales["s2"].plus_downloaded = 0
    /\ scales["s1"].products = scales["s2"].products

\* Nothing has gone wrong so far: every add succeeded, no vendor connect or
\* send failed, no state other than CONNECT was reported, and no delete-all
\* was answered without the sentinel.
Benign ==
    /\ pc \notin {"start", "add"} => Registered = {args.scale[k] : k \in DOMAIN args.scale}
    /\ \A d \in Addrs : ~failed[d]
    /\ \A d \in Registered :
          /\ scales[d].state \in {"DISCONNECT", "CONNECT"}
          /\ scales[d].last_recv_action = "DELETEALL" => scales[d].delete_completed

Success == pc = "ok" /\ \A d \in Registered : scales[d].notified

\* C35: with timeout = 0, when every add and connect succeeds, every scale is
\* reported connected once, no receive timeout occurs, no send fails and
\* every command is acknowledged once, the run comes to return success, every
\* scale having been read complete: a run either leaves these conditions or
\* reaches success.
C35_BenignRunSucceeds == <>(args.timeout # 0 \/ ~Benign \/ Success)

\* C36: the item records sent to a scale are, in order, the first items of
\* its list, none skipped, repeated or out of place, and they are the whole
\* list once the scale is complete.
C36_SentIsPrefix ==
    \A d \in Registered :
        LET ds == Downloads(d) IN
        /\ Len(ds) <= Len(scales[d].products)
        /\ \A k \in 1..Len(ds) :
              k <= Len(scales[d].products) => ds[k].item = scales[d].products[k]
        /\ (connected[d] /\ complete(scales[d])) => Len(ds) = Len(scales[d].products)

\* C37: with a scale that acknowledges only what was sent to it, the
\* downloaded count of a scale never exceeds the number of items in its
\* list, and a percentage printed by status_str never exceeds 100.
C37_AtMostAllDownloaded ==
    \A d \in Registered :
        /\ scales[d].plus_downloaded <= Len(scales[d].products)
        /\ status_str(scales[d]).kind = "percent" =>
              status_str(scales[d]).num <= 100 * status_str(scales[d]).den

\* A receive callback for the scale d that comes to call push_plu.
Recv(d) == RecvDownload(d) \/ (RecvDeleteAll(d) /\ scales'[d].delete_completed)

\* The scale d has a command in flight, whose answer may call push_plu.
Awaited(d) == link[d] = "up" /\ inflight[d] # <<>>

\* No step sends anything to a scale whose state, as last reported, is not
\* CONNECT, and delete_plus then returns false without a vendor call.
NoSendUnlessConnect ==
    /\ [][\A d \in Registered :
            scales'[d].state # "CONNECT" => sent'[d] = sent[d]]_vars
    /\ [](\A d \in Registered : \A ret \in {0, 1} :
            scales[d].state # "CONNECT" =>
                delete_plus(scales[d], ret)
                    = [scale |-> scales[d], rc |-> FALSE, calls |-> <<>>])

\* C38: nothing is sent to a scale whose last reported state is not CONNECT:
\* push_plu then returns an error and delete_plus returns false, both without
\* a vendor call, and a receive callback does not advance the next-item
\* index.
C38_NotConnectNoSend ==
    /\ NoSendUnlessConnect
    /\ [](\A d \in Registered : \A ret \in {0, 1} :
            (Awaited(d) /\ scales[d].state # "CONNECT") =>
                push_plu(scales[d], ret)
                    = [scale |-> scales[d], rc |-> "Err", calls |-> <<>>])
    /\ [][\A d \in Registered :
            (Recv(d) /\ scales[d].state # "CONNECT") =>
                scales'[d].product_idx = scales[d].product_idx]_vars

\* C38, amended: as C38 while an item remains to be sent; when none remains
\* push_plu returns Ok(false) without a vendor call, whatever the state, and
\* the receive callback that called it advances the next-item index.
C38_NotConnectNoSendWhileItemsRemain ==
    /\ NoSendUnlessConnect
    /\ [](\A d \in Registered : \A ret \in {0, 1} :
            (Awaited(d) /\ scales[d].state # "CONNECT") =>
                push_plu(scales[d], ret)
                    = [scale |-> scales[d],
                       rc |-> IF scales[d].product_idx >= Len(scales[d].products)
                              THEN "OkFalse" ELSE "Err",
                       calls |-> <<>>])
    /\ [][\A d \in Registered :
            (Recv(d) /\ scales[d].state # "CONNECT"
                /\ scales[d].product_idx < Len(scales[d].products)) =>
                /\ scales'[d].product_idx = scales[d].product_idx
                /\ link'[d] = "closed"]_vars

\* An acknowledgment reached a scale that had reported a receive timeout
\* with an item still to send: nothing was sent and the scale was disconnected.
C38_Witness ==
    \E d \in Registered :
        /\ scales[d].state = "RECEIVETIMEOVER"
        /\ scales[d].last_recv_action = "DOWNLOAD"
        /\ scales[d].product_idx < Len(scales[d].products)
        /\ link[d] = "closed"
        /\ ~failed[d]

\* The thread t waits for a mutex that another thread holds.
Blocked(t) == \E l \in DOMAIN locks : Waits(t, l) /\ locks[l] \notin {"nobody", t}

\* C39: every thread takes DLLAPI before a scale's mutex and never the other
\* way round: who holds a scale's mutex holds DLLAPI, and who waits for
\* DLLAPI holds nothing.  So no threads wait on each other: a thread that
\* another one waits for is not itself waiting for a held mutex, and no
\* thread waits for a mutex it holds.
C39_LockOrder ==
    /\ \A t \in Threads, d \in Addrs : locks[d] = t => locks["DLLAPI"] = t
    /\ \A t \in Threads :
          threads[t].step = "lock_dll" => \A l \in DOMAIN locks : locks[l] # t
    /\ \A t \in Threads, l \in DOMAIN locks : Waits(t, l) => locks[l] # t
    /\ \A t \in Threads, u \in Threads, l \in DOMAIN locks :
          (Waits(t, l) /\ locks[l] = u) => ~Blocked(u)

\* Both vendor threads wait for DLLAPI while main, holding it, is about to
\* lock a scale in the poll loop.
C39_Witness ==
    /\ threads["main"].phase = "poll"
    /\ threads["main"].step = "lock_scale"
    /\ locks["DLLAPI"] = "main"
    /\ Blocked("v1")
    /\ Blocked("v2")

====
